---- MODULE Spec2Model ----
(***************************************************************************)
(* Model of the two asset scripts of factorio-grid-planner:                *)
(*   scripts/make_boundary_translucent.py  (alpha variant remapper and     *)
(*                                          its batch driver)              *)
(*   graphics/export_icons.py              (Inkscape export loop)          *)
(*                                                                         *)
(* Three specifications share the variables:                               *)
(*   SpecImage  - one call of transform_image on a decoded image           *)
(*   SpecBatch  - one run of make_boundary_translucent.main                *)
(*   SpecExport - one run of export_icons.main                             *)
(***************************************************************************)
EXTENDS Integers, Sequences, FiniteSets, TLC

VARIABLES
    \* ---- transform_image ----
    src,        \* the RGBA grid stored in the file at in_path
    oa,         \* argument opaque_alpha
    ta,         \* argument transparent_alpha
    img,        \* local img (decoded image), NoImage before Image.open
    modes,      \* <<high_mode, low_mode>> returned by _detect_alpha_modes
    out,        \* local out, the image handed to out.save
    changed,    \* local changed
    ipc,        \* "call" before the call, "done" after out.save, else "idle"
    \* ---- make_boundary_translucent.main ----
    fs,           \* the input folders: isdir and the names os.listdir gives
    borderIsFile, \* os.path.isfile(BORDER_IN)
    v,            \* index in VARIANTS of main's loop variable
    step,         \* main's position: the folder or "border" it is at, "return", "exit"
    inFolder,     \* TRUE inside the loop of process_folder for folder step
    todo,         \* names of the listing the loop has not reached yet
    count,        \* process_folder's count
    total,        \* main's total
    calls,        \* the calls of transform_image so far, in order
    madeDirs,     \* directories ensure_dir was called on
    status,       \* exit status of the process, None while it runs
    \* ---- export_icons.main ----
    svgExists,     \* svg_file.exists()
    pathExists,    \* Path(path).exists() for each of possible_paths
    epc,           \* main's position: "start", "find", "export", "exit"
    inkscape_path, \* what find_inkscape returned, NoPath for None
    idx,           \* index in exports of the loop of main
    attempts,      \* the Inkscape export commands run so far, in order
    success_count, \* local success_count
    exit_status    \* exit status of the process, None while it runs

imageVars == <<src, oa, ta, img, modes, out, changed, ipc>>

batchVars == <<fs, borderIsFile, v, step, inFolder, todo, count, total, calls,
               madeDirs, status>>

exportVars == <<svgExists, pathExists, epc, inkscape_path, idx, attempts,
                success_count, exit_status>>

vars == <<imageVars, batchVars, exportVars>>

(***************************************************************************)
(* Bounds of the checked inputs.                                           *)
(***************************************************************************)
\* Largest number of pixels (width * height) of a checked image.
MaxPixels == 4

\* The pixels the checked images are made of: the two pixels of the
\* documented 2x1 scenario (alphas 102 and 38), a third non-zero alpha at the
\* top of the 8-bit range, a fully transparent pixel that carries colour, and
\* a second colour for alpha 102.
PixelSamples ==
    { <<255, 0, 0, 102>>, <<0, 255, 0, 38>>, <<0, 0, 255, 255>>,
      <<7, 7, 7, 0>>, <<0, 255, 0, 102>> }

\* Largest number of names in a checked input folder.
MaxFiles == 2

\* The names the checked input folders hold.
NameSamples == {"a.png", "B.PNG", "notes.txt"}

\* The (opaque_alpha, transparent_alpha) pairs of the checked calls: the
\* integer targets of the three variants, (102, 38) also being the two source
\* alphas of the documented scenario; their swap (38, 102), where each target
\* is a source alpha of the other mode; equal targets; the ends of the range.
TargetPairs ==
    { <<102, 38>>, <<51, 19>>, <<26, 64>>, <<38, 102>>, <<102, 102>>, <<0, 255>> }

(***************************************************************************)
(* Images.  An image is [w, h, px] with px the pixels in row-major order;  *)
(* a pixel is <<r, g, b, a>>.                                              *)
(***************************************************************************)
None == -1

NoImage == [w |-> 0, h |-> 0, px |-> <<>>]

AlphaLevels == 256

getpixel(im, x, y) == im.px[y * im.w + x + 1]

putpixel(im, x, y, p) == [im EXCEPT !.px[y * im.w + x + 1] = p]

\* Image.new("RGBA", (w, h)): a grid of (0, 0, 0, 0)
ImageNew(w, h) == [w |-> w, h |-> h, px |-> [k \in 1..(w * h) |-> <<0, 0, 0, 0>>]]

Images ==
    UNION { { [w |-> w, h |-> h, px |-> p] : p \in [1..(w * h) -> PixelSamples] } :
            <<w, h>> \in { d \in (1..MaxPixels) \X (1..MaxPixels) : d[1] * d[2] <= MaxPixels } }

(***************************************************************************)
(* _detect_alpha_modes                                                     *)
(***************************************************************************)
\* the two nested loops filling hist; k counts the pixels visited so far,
\* y = k \div w is the outer and x = k % w the inner loop variable
RECURSIVE HistLoop(_, _, _)
HistLoop(im, k, hist) ==
    IF k >= im.w * im.h THEN hist
    ELSE LET a == getpixel(im, k % im.w, k \div im.w)[4]
         IN  HistLoop(im, k + 1, IF a > 0 THEN [hist EXCEPT ![a] = @ + 1] ELSE hist)

Hist(im) == HistLoop(im, 0, [a \in 0..(AlphaLevels - 1) |-> 0])

\* enumerate(hist): the (index, count) pairs in index order
Enumerate(hist) == [i \in 1..AlphaLevels |-> <<i - 1, hist[i - 1]>>]

\* [(a, c) for a, c in enumerate(hist) if a > 0 and c > 0]
NonZero(hist) ==
    LET Keep(t) == t[1] > 0 /\ t[2] > 0
    IN  SelectSeq(Enumerate(hist), Keep)

\* KeyLess with count ties going to the smaller alpha
KeyLessPreferLowAlpha(t, u) == t[2] < u[2] \/ (t[2] = u[2] /\ t[1] > u[1])

\* the sort key lambda t: (t[1], t[0]) of the (alpha, count) pairs, compared
\* as Python compares tuples
KeyLess(t, u) == t[2] < u[2] \/ (t[2] = u[2] /\ t[1] < u[1])

RemoveAt(s, i) == SubSeq(s, 1, i - 1) \o SubSeq(s, i + 1, Len(s))

\* list.sort(key=..., reverse=True): descending by key (the keys are distinct)
RECURSIVE SortReverse(_)
SortReverse(s) ==
    IF s = <<>> THEN <<>>
    ELSE LET i == CHOOSE j \in 1..Len(s) : \A m \in 1..Len(s) : ~KeyLess(s[j], s[m])
         IN  <<s[i]>> \o SortReverse(RemoveAt(s, i))

\* high, low = (top[0], top[1]) if top[0] >= top[1] else (top[1], top[0])
OrderModes(t0, t1) == IF t0 >= t1 THEN <<t0, t1>> ELSE <<t1, t0>>

DetectAlphaModes(im) ==
    LET non_zero == NonZero(Hist(im))
    IN  IF non_zero = <<>> THEN <<None, None>>
        ELSE LET sorted == SortReverse(non_zero)
                 top == [j \in 1..(IF Len(sorted) < 2 THEN Len(sorted) ELSE 2) |-> sorted[j][1]]
             IN  IF Len(top) = 1 THEN <<top[1], None>>
                 ELSE OrderModes(top[1], top[2])

(***************************************************************************)
(* transform_image                                                         *)
(***************************************************************************)
Min(a, b) == IF a <= b THEN a ELSE b

\* RemapPixel mapping the high mode to the larger target
RemapPixelByMagnitude(p, high_mode, low_mode, opaque_alpha, transparent_alpha) ==
    LET lo == Min(opaque_alpha, transparent_alpha)
        hi == IF opaque_alpha <= transparent_alpha THEN transparent_alpha ELSE opaque_alpha
    IN  IF (low_mode = None \/ low_mode = 0) /\ p[4] > 0
        THEN << <<p[1], p[2], p[3], lo>>, 1 >>
        ELSE IF high_mode # None /\ p[4] = high_mode
             THEN << <<p[1], p[2], p[3], hi>>, 1 >>
             ELSE IF low_mode # None /\ p[4] = low_mode
                  THEN << <<p[1], p[2], p[3], lo>>, 1 >>
                  ELSE << p, 0 >>

\* RemapPixel using opaque_alpha in the single-mode case
RemapPixelSingleKeepsMax(p, high_mode, low_mode, opaque_alpha, transparent_alpha) ==
    IF (low_mode = None \/ low_mode = 0) /\ p[4] > 0
    THEN << <<p[1], p[2], p[3], opaque_alpha>>, 1 >>
    ELSE IF high_mode # None /\ p[4] = high_mode
         THEN << <<p[1], p[2], p[3], opaque_alpha>>, 1 >>
         ELSE IF low_mode # None /\ p[4] = low_mode
              THEN << <<p[1], p[2], p[3], transparent_alpha>>, 1 >>
              ELSE << p, 0 >>

\* RemapPixel writing (g, r, b) for a low-mode pixel
RemapPixelSwapsChannels(p, high_mode, low_mode, opaque_alpha, transparent_alpha) ==
    IF (low_mode = None \/ low_mode = 0) /\ p[4] > 0
    THEN << <<p[1], p[2], p[3], Min(opaque_alpha, transparent_alpha)>>, 1 >>
    ELSE IF high_mode # None /\ p[4] = high_mode
         THEN << <<p[1], p[2], p[3], opaque_alpha>>, 1 >>
         ELSE IF low_mode # None /\ p[4] = low_mode
              THEN << <<p[2], p[1], p[3], transparent_alpha>>, 1 >>
              ELSE << p, 0 >>

\* One iteration of the pixel loop on pixel p: the pixel put into out and
\* the increment of changed.
RemapPixel(p, high_mode, low_mode, opaque_alpha, transparent_alpha) ==
    IF (low_mode = None \/ low_mode = 0) /\ p[4] > 0
    THEN << <<p[1], p[2], p[3], Min(opaque_alpha, transparent_alpha)>>, 1 >>
    ELSE IF high_mode # None /\ p[4] = high_mode
         THEN << <<p[1], p[2], p[3], opaque_alpha>>, 1 >>
         ELSE IF low_mode # None /\ p[4] = low_mode
              THEN << <<p[1], p[2], p[3], transparent_alpha>>, 1 >>
              ELSE << p, 0 >>

\* the two nested loops over y and x; st = [out, changed], k as in HistLoop
RECURSIVE RemapLoop(_, _, _, _, _, _)
RemapLoop(im, m, opaque_alpha, transparent_alpha, k, st) ==
    IF k >= im.w * im.h THEN st
    ELSE LET x == k % im.w
             y == k \div im.w
             r == RemapPixel(getpixel(im, x, y), m[1], m[2], opaque_alpha, transparent_alpha)
         IN  RemapLoop(im, m, opaque_alpha, transparent_alpha, k + 1,
                       [out |-> putpixel(st.out, x, y, r[1]), changed |-> st.changed + r[2]])

\* transform_image(in_path, out_path, opaque_alpha, transparent_alpha) on a
\* file that decodes and an output that can be written
TransformImage ==
    /\ ipc = "call"
    /\ LET im == src
           m == DetectAlphaModes(im)
           st == RemapLoop(im, m, oa, ta, 0, [out |-> ImageNew(im.w, im.h), changed |-> 0])
       IN  /\ img' = im
           /\ modes' = m
           /\ out' = st.out
           /\ changed' = st.changed
    /\ ipc' = "done"
    /\ UNCHANGED <<src, oa, ta, batchVars, exportVars>>

(***************************************************************************)
(* make_boundary_translucent.py: configuration and paths                   *)
(***************************************************************************)
\* The float literals of VARIANTS are written in thousandths.
Milli == 1000

VARIANTS ==
    << [tag |-> "a40_15",  opaque_alpha |-> 400, transparent_alpha |-> 150],
       [tag |-> "a20_075", opaque_alpha |-> 200, transparent_alpha |-> 75],
       [tag |-> "a10_25",  opaque_alpha |-> 100, transparent_alpha |-> 250] >>

\* A path is the sequence of its components below ROOT.
join(path, name) == Append(path, name)

dirname(path) == SubSeq(path, 1, Len(path) - 1)

GFX == <<"graphics">>

EDGES_IN == join(join(GFX, "base"), "edge")

CORNERS_IN == join(join(GFX, "base"), "corner")

CENTERS_IN == join(join(GFX, "base"), "center")

BORDER_IN == join(join(GFX, "base"), "chart-border.png")

variant_root(tag) == join(GFX, tag)

edges_out_dir(tag) == join(variant_root(tag), "edge")

corners_out_dir(tag) == join(variant_root(tag), "corner")

centers_out_dir(tag) == join(variant_root(tag), "center")

border_out_path(tag) == join(variant_root(tag), "chart-border.png")

\* the three process_folder calls of main's loop body, by the folder they read
Folders == {"edge", "corner", "center"}

InDir(f) ==
    CASE f = "edge" -> EDGES_IN
      [] f = "corner" -> CORNERS_IN
      [] f = "center" -> CENTERS_IN

OutDir(f, tag) ==
    CASE f = "edge" -> edges_out_dir(tag)
      [] f = "corner" -> corners_out_dir(tag)
      [] f = "center" -> centers_out_dir(tag)

\* the statement of main's loop body that follows the one at f
AfterFolder(f) ==
    CASE f = "edge" -> "corner"
      [] f = "corner" -> "center"
      [] f = "center" -> "border"

\* round(n / d) as Python rounds: to the nearest integer, a half to the even one
PyRound(n, d) ==
    LET q == n \div d
        r == n % d
    IN  IF 2 * r < d THEN q
        ELSE IF 2 * r > d THEN q + 1
        ELSE IF q % 2 = 0 THEN q ELSE q + 1

\* int(round(255 * fraction)), the fraction in thousandths
AlphaTarget(fraction) == PyRound(255 * fraction, Milli)

\* The characters of the sample names.
Chars(name) ==
    CASE name = "a.png" -> <<"a", ".", "p", "n", "g">>
      [] name = "B.PNG" -> <<"B", ".", "P", "N", "G">>
      [] name = "notes.txt" -> <<"n", "o", "t", "e", "s", ".", "t", "x", "t">>

\* str.lower on the characters that occur
LowerChar(c) ==
    CASE c = "B" -> "b"
      [] c = "P" -> "p"
      [] c = "N" -> "n"
      [] c = "G" -> "g"
      [] OTHER -> c

lower(s) == [i \in 1..Len(s) |-> LowerChar(s[i])]

endswith(s, suffix) ==
    /\ Len(s) >= Len(suffix)
    /\ SubSeq(s, Len(s) - Len(suffix) + 1, Len(s)) = suffix

\* name.lower().endswith(".png")
IsPngCaseSensitive(name) == endswith(Chars(name), <<".", "p", "n", "g">>)

IsPng(name) == endswith(lower(Chars(name)), <<".", "p", "n", "g">>)

(***************************************************************************)
(* make_boundary_translucent.py: process_folder and main                   *)
(*                                                                         *)
(* transform_image either returns or raises: Image.open raises on a file   *)
(* that does not decode (before anything is written), out.save raises when *)
(* the output cannot be written (after ensure_dir).  Nothing in            *)
(* process_folder or main catches the exception, so it ends the process    *)
(* with a traceback and exit status 1.                                     *)
(***************************************************************************)
Outcomes == {"ok", "DecodeFailure", "EncodeFailure"}

Call(in_path, out_path, outcome) ==
    [variant |-> v, in_path |-> in_path, out_path |-> out_path,
     opaque_alpha |-> AlphaTarget(VARIANTS[v].opaque_alpha),
     transparent_alpha |-> AlphaTarget(VARIANTS[v].transparent_alpha),
     outcome |-> outcome]

\* directories transform_image has ensured when it ends with outcome
EnsuredBy(out_path, outcome) ==
    IF outcome = "DecodeFailure" THEN {} ELSE {dirname(out_path)}

\* the uncaught exception unwinds process_folder and main
Traceback ==
    /\ status' = 1
    /\ step' = "exit"
    /\ inFolder' = FALSE

\* the end of main's loop body: the next variant, or the statement after the loop
NextVariant ==
    IF v < Len(VARIANTS)
    THEN v' = v + 1 /\ step' = "edge"
    ELSE v' = v /\ step' = "return"

\* ProcessFolderSkip with ensure_dir(out_dir) ahead of the isdir test
ProcessFolderSkipMakesDir ==
    /\ step \in Folders /\ ~inFolder
    /\ ~fs[step].isdir
    /\ madeDirs' = madeDirs \cup {OutDir(step, VARIANTS[v].tag)}
    /\ total' = total + 0
    /\ step' = AfterFolder(step)
    /\ UNCHANGED <<fs, borderIsFile, v, inFolder, todo, count, calls, status,
                   imageVars, exportVars>>

\* process_folder on a path that is no directory: print Skip, return 0
ProcessFolderSkip ==
    /\ step \in Folders /\ ~inFolder
    /\ ~fs[step].isdir
    /\ total' = total + 0
    /\ step' = AfterFolder(step)
    /\ UNCHANGED <<fs, borderIsFile, v, inFolder, todo, count, calls, madeDirs,
                   status, imageVars, exportVars>>

\* process_folder up to its loop: ensure_dir(out_dir), count = 0, os.listdir
ProcessFolderEnter ==
    /\ step \in Folders /\ ~inFolder
    /\ fs[step].isdir
    /\ madeDirs' = madeDirs \cup {OutDir(step, VARIANTS[v].tag)}
    /\ count' = 0
    /\ todo' = fs[step].names
    /\ inFolder' = TRUE
    /\ UNCHANGED <<fs, borderIsFile, v, step, total, calls, status, imageVars,
                   exportVars>>

\* one iteration on a name that does not end in .png: continue
ProcessFolderContinue ==
    /\ inFolder
    /\ \E name \in todo :
          /\ ~IsPng(name)
          /\ todo' = todo \ {name}
    /\ UNCHANGED <<fs, borderIsFile, v, step, inFolder, count, total, calls,
                   madeDirs, status, imageVars, exportVars>>

\* one iteration on a .png name, transform_image returning
ProcessFolderFile ==
    /\ inFolder
    /\ \E name \in todo :
          /\ IsPng(name)
          /\ LET dst == join(OutDir(step, VARIANTS[v].tag), name)
             IN  /\ calls' = Append(calls, Call(join(InDir(step), name), dst, "ok"))
                 /\ madeDirs' = madeDirs \cup EnsuredBy(dst, "ok")
          /\ count' = count + 1
          /\ todo' = todo \ {name}
    /\ UNCHANGED <<fs, borderIsFile, v, step, inFolder, total, status,
                   imageVars, exportVars>>

\* one iteration on a .png name, transform_image raising
ProcessFolderFileRaises ==
    /\ inFolder
    /\ \E name \in todo, outcome \in Outcomes \ {"ok"} :
          /\ IsPng(name)
          /\ LET dst == join(OutDir(step, VARIANTS[v].tag), name)
             IN  /\ calls' = Append(calls, Call(join(InDir(step), name), dst, outcome))
                 /\ madeDirs' = madeDirs \cup EnsuredBy(dst, outcome)
    /\ Traceback
    /\ UNCHANGED <<fs, borderIsFile, v, todo, count, total, imageVars,
                   exportVars>>

\* the loop of process_folder is over: return count, main adds it to total
ProcessFolderReturn ==
    /\ inFolder
    /\ todo = {}
    /\ total' = total + count
    /\ inFolder' = FALSE
    /\ step' = AfterFolder(step)
    /\ UNCHANGED <<fs, borderIsFile, v, todo, count, calls, madeDirs, status,
                   imageVars, exportVars>>

\* if os.path.isfile(BORDER_IN) is false
BorderSkip ==
    /\ step = "border"
    /\ ~borderIsFile
    /\ NextVariant
    /\ UNCHANGED <<fs, borderIsFile, inFolder, todo, count, total, calls,
                   madeDirs, status, imageVars, exportVars>>

\* the border file, transform_image returning
BorderFile ==
    /\ step = "border"
    /\ borderIsFile
    /\ LET dst == border_out_path(VARIANTS[v].tag)
       IN  /\ calls' = Append(calls, Call(BORDER_IN, dst, "ok"))
           /\ madeDirs' = madeDirs \cup EnsuredBy(dst, "ok")
    /\ total' = total + 1
    /\ NextVariant
    /\ UNCHANGED <<fs, borderIsFile, inFolder, todo, count, status, imageVars,
                   exportVars>>

\* the border file, transform_image raising
BorderFileRaises ==
    /\ step = "border"
    /\ borderIsFile
    /\ \E outcome \in Outcomes \ {"ok"} :
          LET dst == border_out_path(VARIANTS[v].tag)
          IN  /\ calls' = Append(calls, Call(BORDER_IN, dst, outcome))
              /\ madeDirs' = madeDirs \cup EnsuredBy(dst, outcome)
    /\ Traceback
    /\ UNCHANGED <<fs, borderIsFile, v, todo, count, total, imageVars,
                   exportVars>>

\* print Done, return 0, sys.exit(main())
MainReturn ==
    /\ step = "return"
    /\ status' = 0
    /\ step' = "exit"
    /\ UNCHANGED <<fs, borderIsFile, v, inFolder, todo, count, total, calls,
                   madeDirs, imageVars, exportVars>>

IdleImage ==
    /\ src = NoImage /\ oa = 0 /\ ta = 0 /\ img = NoImage
    /\ modes = <<None, None>> /\ out = NoImage /\ changed = 0 /\ ipc = "idle"

FolderStates ==
    { [isdir |-> FALSE, names |-> {}] } \cup
    { [isdir |-> TRUE, names |-> S] : S \in { T \in SUBSET NameSamples : Cardinality(T) <= MaxFiles } }

IdleBatch ==
    /\ fs = [f \in Folders |-> [isdir |-> FALSE, names |-> {}]]
    /\ borderIsFile = FALSE
    /\ v = 1 /\ step = "exit" /\ inFolder = FALSE /\ todo = {} /\ count = 0
    /\ total = 0 /\ calls = <<>> /\ madeDirs = {} /\ status = None

NextBatch ==
    \/ ProcessFolderSkip
    \/ ProcessFolderEnter
    \/ ProcessFolderContinue
    \/ ProcessFolderFile
    \/ ProcessFolderFileRaises
    \/ ProcessFolderReturn
    \/ BorderSkip
    \/ BorderFile
    \/ BorderFileRaises
    \/ MainReturn

(***************************************************************************)
(* export_icons.py                                                         *)
(*                                                                         *)
(* subprocess.run either returns a completed process with a return code or *)
(* raises (the executable cannot be started, the timeout expires, the      *)
(* captured output does not decode).  find_inkscape catches TimeoutExpired *)
(* and FileNotFoundError; export_svg_to_png and main catch nothing, so any *)
(* other exception ends the process with a traceback and exit status 1.    *)
(***************************************************************************)
NoPath == "None"

possible_paths ==
    << "C:\\Program Files\\Inkscape\\bin\\inkscape.exe",
       "C:\\Program Files (x86)\\Inkscape\\bin\\inkscape.exe",
       "~\\AppData\\Local\\Programs\\Inkscape\\bin\\inkscape.exe" >>

exports ==
    << [dpi |-> 24, filename |-> "icons-16.png"],
       [dpi |-> 48, filename |-> "icons-32.png"],
       [dpi |-> 96, filename |-> "icons-64.png"] >>

\* The return codes a finished Inkscape process is given in the checked runs
\* (-9: killed by a signal).
ReturnCodes == {0, 1, -9}

\* What running ["inkscape", "--version"] does in the checked runs.
ProbeOutcomes == {"returns 0", "returns 1", "TimeoutExpired", "FileNotFoundError", "OSError"}

\* find_inkscape when no exception escapes it
find_inkscape(probe) ==
    IF \E i \in 1..Len(possible_paths) : pathExists[i]
    THEN possible_paths[CHOOSE i \in 1..Len(possible_paths) :
                            /\ pathExists[i]
                            /\ \A j \in 1..(i - 1) : ~pathExists[j]]
    ELSE IF probe = "returns 0" THEN "inkscape"
    ELSE NoPath

\* the exception of the --version probe escapes find_inkscape
ProbeEscapes(probe) ==
    /\ \A i \in 1..Len(possible_paths) : ~pathExists[i]
    /\ probe \notin {"returns 0", "returns 1", "TimeoutExpired", "FileNotFoundError"}

\* if not svg_file.exists(): sys.exit(1)
SvgMissing ==
    /\ epc = "start"
    /\ ~svgExists
    /\ exit_status' = 1
    /\ epc' = "exit"
    /\ UNCHANGED <<svgExists, pathExists, inkscape_path, idx, attempts,
                   success_count, imageVars, batchVars>>

SvgFound ==
    /\ epc = "start"
    /\ svgExists
    /\ epc' = "find"
    /\ UNCHANGED <<svgExists, pathExists, inkscape_path, idx, attempts,
                   success_count, exit_status, imageVars, batchVars>>

\* inkscape_path = find_inkscape(), truthy: on to the loop with success_count = 0
InkscapeFound ==
    /\ epc = "find"
    /\ \E probe \in ProbeOutcomes :
          /\ ~ProbeEscapes(probe)
          /\ find_inkscape(probe) # NoPath
          /\ inkscape_path' = find_inkscape(probe)
    /\ success_count' = 0
    /\ idx' = 1
    /\ epc' = "export"
    /\ UNCHANGED <<svgExists, pathExists, attempts, exit_status, imageVars,
                   batchVars>>

\* inkscape_path = find_inkscape() is None: sys.exit(1)
InkscapeNotFound ==
    /\ epc = "find"
    /\ \E probe \in ProbeOutcomes :
          /\ ~ProbeEscapes(probe)
          /\ find_inkscape(probe) = NoPath
    /\ exit_status' = 1
    /\ epc' = "exit"
    /\ UNCHANGED <<svgExists, pathExists, inkscape_path, idx, attempts,
                   success_count, imageVars, batchVars>>

\* the --version probe raises something find_inkscape does not catch
InkscapeProbeRaises ==
    /\ epc = "find"
    /\ \E probe \in ProbeOutcomes : ProbeEscapes(probe)
    /\ exit_status' = 1
    /\ epc' = "exit"
    /\ UNCHANGED <<svgExists, pathExists, inkscape_path, idx, attempts,
                   success_count, imageVars, batchVars>>

Attempt(returncode, raised) ==
    [inkscape |-> inkscape_path, dpi |-> exports[idx].dpi,
     filename |-> exports[idx].filename, raised |-> raised, returncode |-> returncode]

\* ExportResult with the test of the return code inverted
ExportResultInverted(returncode) == returncode # 0

\* export_svg_to_png returns result.returncode == 0
ExportResult(returncode) == returncode = 0

\* one iteration of the loop, subprocess.run returning
ExportReturns ==
    /\ epc = "export"
    /\ idx <= Len(exports)
    /\ \E returncode \in ReturnCodes :
          /\ attempts' = Append(attempts, Attempt(returncode, FALSE))
          /\ success_count' = IF ExportResult(returncode) THEN success_count + 1
                              ELSE success_count
    /\ idx' = idx + 1
    /\ UNCHANGED <<svgExists, pathExists, epc, inkscape_path, exit_status,
                   imageVars, batchVars>>

\* one iteration of the loop, subprocess.run raising
ExportRaises ==
    /\ epc = "export"
    /\ idx <= Len(exports)
    /\ attempts' = Append(attempts, Attempt(0, TRUE))
    /\ exit_status' = 1
    /\ epc' = "exit"
    /\ UNCHANGED <<svgExists, pathExists, inkscape_path, idx, success_count,
                   imageVars, batchVars>>

\* after the loop: sys.exit(1) if success_count < len(exports), else main returns
ExportsDone ==
    /\ epc = "export"
    /\ idx > Len(exports)
    /\ exit_status' = IF success_count < Len(exports) THEN 1 ELSE 0
    /\ epc' = "exit"
    /\ UNCHANGED <<svgExists, pathExists, inkscape_path, idx, attempts,
                   success_count, imageVars, batchVars>>

IdleExport ==
    /\ svgExists = FALSE /\ pathExists = <<FALSE, FALSE, FALSE>> /\ epc = "idle"
    /\ inkscape_path = NoPath /\ idx = 1 /\ attempts = <<>> /\ success_count = 0
    /\ exit_status = None

NextExport ==
    \/ SvgMissing
    \/ SvgFound
    \/ InkscapeFound
    \/ InkscapeNotFound
    \/ InkscapeProbeRaises
    \/ ExportReturns
    \/ ExportRaises
    \/ ExportsDone

(***************************************************************************)
(* Specifications                                                          *)
(***************************************************************************)
\* a call of transform_image on a file that decodes
InitImage ==
    /\ IdleBatch
    /\ IdleExport
    /\ src \in Images
    /\ \E t \in TargetPairs : oa = t[1] /\ ta = t[2]
    /\ img = NoImage
    /\ modes = <<None, None>>
    /\ out = NoImage
    /\ changed = 0
    /\ ipc = "call"

NextImage == TransformImage

SpecImage == InitImage /\ [][NextImage]_vars

\* a run of make_boundary_translucent.py on some state of graphics/base
InitBatch ==
    /\ IdleImage
    /\ IdleExport
    /\ fs \in [Folders -> FolderStates]
    /\ borderIsFile \in BOOLEAN
    /\ v = 1 /\ step = "edge" /\ inFolder = FALSE /\ todo = {} /\ count = 0
    /\ total = 0 /\ calls = <<>> /\ madeDirs = {} /\ status = None

SpecBatch == InitBatch /\ [][NextBatch]_vars

\* a run of export_icons.py
InitExport ==
    /\ IdleImage
    /\ IdleBatch
    /\ svgExists \in BOOLEAN
    /\ pathExists \in [1..Len(possible_paths) -> BOOLEAN]
    /\ epc = "start"
    /\ inkscape_path = NoPath /\ idx = 1 /\ attempts = <<>> /\ success_count = 0
    /\ exit_status = None

SpecExport == InitExport /\ [][NextExport]_vars

(***************************************************************************)
(* Claims about _detect_alpha_modes and transform_image (SpecImage)        *)
(***************************************************************************)
AlphaCount(im, val) == Cardinality({ k \in 1..Len(im.px) : im.px[k][4] = val })

\* the alpha values 1..255 with a positive pixel count
Counted(im) == { val \in 1..255 : AlphaCount(im, val) > 0 }

\* val is selected before u: greater count, ties in favour of the larger alpha
Beats(im, val, u) ==
    \/ AlphaCount(im, val) > AlphaCount(im, u)
    \/ AlphaCount(im, val) = AlphaCount(im, u) /\ val > u

Best(im, S) == CHOOSE val \in S : \A u \in S \ {val} : Beats(im, val, u)

RefModes(im) ==
    LET S == Counted(im)
    IN  IF S = {} THEN <<None, None>>
        ELSE IF Cardinality(S) = 1 THEN <<CHOOSE val \in S : TRUE, None>>
        ELSE LET f == Best(im, S)
                 g == Best(im, S \ {f})
             IN  IF f > g THEN <<f, g>> ELSE <<g, f>>

\* C1: for every image _detect_alpha_modes returns what the reference rule
\* gives: (absent, absent) when no alpha in 1..255 occurs, (V, absent) when
\* only V occurs, else the two values of greatest count (count ties to the
\* larger alpha), the larger of the two as high_mode, the smaller as low_mode.
C1_DetectMatchesReference ==
    ipc = "done" => modes = RefModes(src)

\* C1 witness: three distinct non-zero alphas; the most frequent one is the
\* smallest, the tie between the other two goes to the larger, and the
\* high_mode is the one with the smaller count.
C1_Witness ==
    /\ ipc = "done"
    /\ Counted(src) = {38, 102, 255}
    /\ AlphaCount(src, 38) = 2
    /\ modes = <<255, 38>>

\* C2: with at least two distinct non-zero source alphas, every output alpha
\* is decided by the pixel's source alpha alone: high_mode becomes
\* opaque_alpha, low_mode becomes transparent_alpha, anything else is kept.
C2_TwoModeRemapByIdentity ==
    (ipc = "done" /\ Cardinality(Counted(src)) >= 2) =>
        /\ Len(out.px) = Len(src.px)
        /\ modes[1] # None /\ modes[2] # None
        /\ \A k \in 1..Len(src.px) :
              out.px[k][4] = (IF src.px[k][4] = modes[1] THEN oa
                              ELSE IF src.px[k][4] = modes[2] THEN ta
                              ELSE src.px[k][4])

\* C2 witness: opaque_alpha < transparent_alpha, opaque_alpha equals the
\* low mode, and the image also holds alpha 0 or a non-zero non-mode alpha.
C2_Witness ==
    /\ ipc = "done"
    /\ Counted(src) = {38, 102, 255}
    /\ modes = <<255, 38>>
    /\ oa = 38 /\ ta = 102
    /\ \E k \in 1..Len(out.px) : src.px[k][4] = 102 /\ out.px[k][4] = 102
    /\ \E k \in 1..Len(out.px) : src.px[k][4] = 255 /\ out.px[k][4] = 38

\* C3: when the detected low_mode is absent, every pixel with source
\* alpha > 0 gets min(opaque_alpha, transparent_alpha), every pixel with
\* alpha 0 keeps alpha 0, and an image of alpha-0 pixels only is unchanged.
C3_SingleModeRemap ==
    (ipc = "done" /\ modes[2] = None) =>
        /\ Len(out.px) = Len(src.px)
        /\ \A k \in 1..Len(src.px) :
              out.px[k][4] = (IF src.px[k][4] > 0
                              THEN (IF oa <= ta THEN oa ELSE ta)
                              ELSE 0)
        /\ (\A k \in 1..Len(src.px) : src.px[k][4] = 0) => out = src

\* C3 witness: one non-zero alpha beside a transparent pixel, with
\* transparent_alpha the smaller target.
C3_Witness ==
    /\ ipc = "done"
    /\ modes = <<255, None>>
    /\ oa = 102 /\ ta = 38
    /\ \E k \in 1..Len(out.px) : src.px[k][4] = 0 /\ out.px[k] = src.px[k]
    /\ \E k \in 1..Len(out.px) : src.px[k][4] = 255 /\ out.px[k][4] = 38

\* C4: the output has the width and height of the source and the red, green
\* and blue of every source pixel; an alpha differs only where the source
\* alpha is a detected mode or, with low_mode absent, is non-zero; the decoded
\* source image is what the file held.
C4_OnlyModeAlphaChanges ==
    ipc = "done" =>
        /\ out.w = src.w /\ out.h = src.h
        /\ Len(out.px) = Len(src.px)
        /\ \A k \in 1..Len(src.px) :
              /\ SubSeq(out.px[k], 1, 3) = SubSeq(src.px[k], 1, 3)
              /\ out.px[k][4] # src.px[k][4] =>
                    \/ src.px[k][4] \in {modes[1], modes[2]} \ {None}
                    \/ modes[2] = None /\ src.px[k][4] > 0
        /\ img = src

\* C4 witness: a 2x2 image in which one alpha is remapped and another kept,
\* the remapped pixel carrying colour.
C4_Witness ==
    /\ ipc = "done"
    /\ src.w = 2 /\ src.h = 2
    /\ \E k \in 1..4 : out.px[k][4] # src.px[k][4] /\ src.px[k][1] # src.px[k][2]
    /\ \E k \in 1..4 : out.px[k][4] = src.px[k][4] /\ src.px[k][4] > 0

\* C9: the count changed equals the number of pixels whose output alpha
\* differs from their source alpha.
C9_ChangedCountsDifferingPixels ==
    ipc = "done" =>
        changed = Cardinality({ k \in 1..Len(src.px) : out.px[k][4] # src.px[k][4] })

(***************************************************************************)
(* Claims about the variant batch driver (SpecBatch)                       *)
(***************************************************************************)
\* the sample names that end in .png when case is ignored
PngNames == {"a.png", "B.PNG"}

\* the input images of a run: the .png names of the existing folders and the
\* border file if it exists
InputImages ==
    { <<"graphics", "base", f, n>> :
        <<f, n>> \in { x \in {"edge", "corner", "center"} \X PngNames :
                         fs[x[1]].isdir /\ x[2] \in fs[x[1]].names } }
    \cup (IF borderIsFile THEN { <<"graphics", "base", "chart-border.png">> } ELSE {})

\* the units of work of a run: every input image, for every variant
Units == (1..3) \X InputImages

\* the units transform_image was called on so far
Attempted == { <<calls[i].variant, calls[i].in_path>> : i \in 1..Len(calls) }

SomeCallFailed == \E i \in 1..Len(calls) : calls[i].outcome # "ok"

\* C5: a file whose decoding or encoding fails aborts only its own
\* processing: when the run ends, every other file of the folder, every later
\* input collection and every later variant has been attempted.
C5_FailureAbortsOnlyThatFile ==
    step = "exit" => Attempted = Units

\* C6: the completion status is non-zero exactly when some unit of work did
\* not complete, and it is reported after all the remaining units were
\* attempted.
C6_StatusAfterAllUnits ==
    step = "exit" =>
        /\ (status # 0) = SomeCallFailed
        /\ \A u \in Units : u \in Attempted

\* C7: a missing input is skipped and never fatal: process_folder on a
\* missing directory calls no transform, creates no directory and adds
\* nothing to the total; a missing border file causes no transform and no
\* increment; either way main goes on to the next collection or variant, and
\* a run in which no file fails attempts every existing input for every
\* variant and ends with status 0.
C7_MissingInputIsSkipped ==
    /\ [][ /\ (step \in {"edge", "corner", "center"} /\ ~inFolder /\ ~fs[step].isdir) =>
                /\ calls' = calls /\ madeDirs' = madeDirs /\ total' = total
                /\ status' = None /\ ~inFolder' /\ v' = v
                /\ step' = (CASE step = "edge" -> "corner"
                              [] step = "corner" -> "center"
                              [] step = "center" -> "border")
           /\ (step = "border" /\ ~borderIsFile) =>
                /\ calls' = calls /\ madeDirs' = madeDirs /\ total' = total
                /\ status' = None
                /\ IF v < 3 THEN v' = v + 1 /\ step' = "edge" ELSE step' = "return"
         ]_vars
    /\ []((step = "exit" /\ ~SomeCallFailed) => (status = 0 /\ Attempted = Units))

\* C7 witness: a finished run with status 0 in which the edge folder and the
\* border file were missing and the files of a later folder were processed
\* for all three variants.
C7_Witness ==
    /\ step = "exit" /\ status = 0
    /\ ~fs["edge"].isdir /\ ~borderIsFile
    /\ fs["center"].isdir /\ "a.png" \in fs["center"].names
    /\ \A n \in 1..3 : <<n, <<"graphics", "base", "center", "a.png">>>> \in Attempted

ExpectedTags == <<"a40_15", "a20_075", "a10_25">>

ExpectedTargets == << <<102, 38>>, <<51, 19>>, <<26, 64>> >>

\* the place of a call in the order edge, corner, center, border of the
\* variants in list order
CallRank(c) ==
    4 * c.variant + (CASE c.in_path[3] = "edge" -> 0
                       [] c.in_path[3] = "corner" -> 1
                       [] c.in_path[3] = "center" -> 2
                       [] c.in_path[3] = "chart-border.png" -> 3)

ExpectedExports == << <<24, "icons-16.png">>, <<48, "icons-32.png">>, <<96, "icons-64.png">> >>

\* the (DPI, file name) pairs of the exports attempted so far, in order
AttemptedExports == [i \in 1..Len(attempts) |-> <<attempts[i].dpi, attempts[i].filename>>]

SomeExportReturnedNonZero ==
    \E i \in 1..Len(attempts) : ~attempts[i].raised /\ attempts[i].returncode # 0

SomeExportRaised == \E i \in 1..Len(attempts) : attempts[i].raised

\* C10 as claimed: with icons.svg present and Inkscape found, main attempts
\* the three exports in order whatever the outcome of the earlier ones and
\* exits non-zero exactly when some export returned a non-zero return code;
\* otherwise it exits with status 1 and attempts nothing.
C10_AllExportsAlwaysAttempted ==
    epc = "exit" =>
        IF svgExists /\ inkscape_path # NoPath
        THEN /\ AttemptedExports = ExpectedExports
             /\ (exit_status # 0) = SomeExportReturnedNonZero
        ELSE exit_status = 1 /\ attempts = <<>>

\* C10 as amended: with icons.svg present and Inkscape found, main attempts
\* the exports in the order (24, icons-16.png), (48, icons-32.png),
\* (96, icons-64.png) and goes on to the next one whatever return code the
\* earlier ones returned; all three are attempted unless an Inkscape
\* invocation raises, which ends main at that export; the exit status is
\* non-zero exactly when some export returned a non-zero return code or
\* raised.  With icons.svg missing or Inkscape not found, main exits with
\* status 1 and attempts nothing.
C10_ExportsAttemptedUntilOneRaises ==
    /\ AttemptedExports = SubSeq(ExpectedExports, 1, Len(attempts))
    /\ \A i \in 1..(Len(attempts) - 1) : ~attempts[i].raised
    /\ epc = "exit" =>
          IF svgExists /\ inkscape_path # NoPath
          THEN /\ ~SomeExportRaised => AttemptedExports = ExpectedExports
               /\ (exit_status # 0) = (SomeExportReturnedNonZero \/ SomeExportRaised)
          ELSE exit_status = 1 /\ attempts = <<>>

\* C10 witness: a finished run whose first export returned a non-zero code
\* and whose third export was still attempted and succeeded.
C10_Witness ==
    /\ epc = "exit"
    /\ Len(attempts) = 3
    /\ ~SomeExportRaised
    /\ attempts[1].returncode # 0
    /\ attempts[3].returncode = 0
    /\ exit_status = 1

====
